---- MODULE Spec2Model ----
(***************************************************************************)
(* Model of Llama3SampleEncoder (nemo/collections/vlm/llama/data/         *)
(* sample_encoder.py): create_vision_mask_tensor, apply_prompt_template,   *)
(* tokenize and encode; and of save() of                                   *)
(* scripts/asr_language_modeling/ngram_lm/create_lexicon_from_arpa.py.     *)
(*                                                                         *)
(* Specifications: Spec and FairSpec (calls of create_vision_mask_tensor), *)
(* ObservedSpec (the same with an observer's note of one call),            *)
(* TemplateSpec (apply_prompt_template), EncodeSpec (encode), SaveSpec     *)
(* (save).                                                                 *)
(*                                                                         *)
(* create_vision_mask_tensor is modelled statement by statement: the tensor of vision     *)
(* token locations keeps its shape (nonzero() yields shape (k,1) and       *)
(* squeeze() drops the dimensions of size 1, so one hit gives a 0-d        *)
(* tensor), the list vision_masks is mutated in place by the reverse       *)
(* scan, and every operation that raises in Python (len() of a 0-d         *)
(* tensor, item() of a tensor with numel # 1, an index out of range)       *)
(* leads to pc = "raised".                                                 *)
(***************************************************************************)
EXTENDS Integers, Sequences, FiniteSets, TLC

\* ---------------------------------------------------------------- bounds
\* Longest token sequence passed to create_vision_mask_tensor.
MaxLen == 5

\* Token ids that occur in token sequences.
TokenIds == {1, 2}

\* Values of vision_token_id: ids that occur in sequences and one that never does.
VisionIds == {1, 2, 9}

\* Longest token sequence of the call an observer notes for a later comparison.
ObservedLen == 2

RECURSIVE SeqsUpTo(_)
SeqsUpTo(n) == IF n = 0 THEN {<<>>}
               ELSE SeqsUpTo(n - 1) \cup [1..n -> TokenIds]

TokenSequences == SeqsUpTo(MaxLen)

\* ---------------------------------------------------------------- tensors
\* A tensor is [shape |-> sequence of dimension sizes, data |-> flat sequence].
RECURSIVE Prod(_)
Prod(s) == IF s = <<>> THEN 1 ELSE Head(s) * Prod(Tail(s))

\* Tensor.numel(): the product of the dimensions (1 for a 0-d tensor).
Numel(t) == Prod(t.shape)

\* Positions (0-based, ascending) of the entries of toks equal to id.
RECURSIVE HitsFrom(_, _, _)
HitsFrom(toks, id, n) ==
    IF n > Len(toks) THEN <<>>
    ELSE (IF toks[n] = id THEN <<n - 1>> ELSE <<>>) \o HitsFrom(toks, id, n + 1)

\* The same scan with the comparison inverted (tokens != vision_token_id).
RECURSIVE MissesFrom(_, _, _)
MissesFrom(toks, id, n) ==
    IF n > Len(toks) THEN <<>>
    ELSE (IF toks[n] # id THEN <<n - 1>> ELSE <<>>) \o MissesFrom(toks, id, n + 1)

NonzeroNe(toks, id) ==
    LET hits == MissesFrom(toks, id, 1)
    IN  [shape |-> <<Len(hits), 1>>, data |-> hits]

\* (tokens == vision_token_id).nonzero(as_tuple=False): shape (k, 1).
Nonzero(toks, id) ==
    LET hits == HitsFrom(toks, id, 1)
    IN  [shape |-> <<Len(hits), 1>>, data |-> hits]

IsNotOne(d) == d # 1

\* Tensor.squeeze(): drop every dimension of size 1.
Squeeze(t) == [shape |-> SelectSeq(t.shape, IsNotOne), data |-> t.data]

\* len(t) raises TypeError for a 0-d tensor.
LenOk(t) == t.shape # <<>>
TensorLen(t) == t.shape[1]

\* t.item() raises unless the tensor holds exactly one element.
ItemOk(t) == Numel(t) = 1
Item(t) == t.data[1]

\* t[i].item() for a 1-d tensor t; i may be negative (Python indexing).
IndexOk(t, i) == /\ Len(t.shape) = 1
                 /\ i >= -(t.shape[1])
                 /\ i < t.shape[1]
IndexItem(t, i) == IF i < 0 THEN t.data[t.shape[1] + i + 1] ELSE t.data[i + 1]

EmptyTensor == [shape |-> <<0>>, data |-> <<>>]

\* ---------------------------------------------------------------- state
VARIABLES
    pc,                     \* position in create_vision_mask_tensor
    tokens,                 \* argument tokens (a 1-d tensor, as a sequence)
    vision_token_id,        \* argument vision_token_id
    vision_token_locations, \* local, a tensor
    vision_masks,           \* local, list of [start, end] lists
    i,                      \* index of the pairwise loop (line 130)
    last_mask_end,          \* local of the reverse scan
    cursor,                 \* 1-based position of the reverse iterator
    result,                 \* rows of the returned tensor
    err                     \* exception raised, "" if none

\* An observer's note of one finished call (its arguments and the mask returned), <<>> if none.
VARIABLES earlier

\* Llama3SampleEncoder.encode and the methods it calls.
VARIABLES
    enc_pc,                 \* position in encode
    tmpl_pc,                \* position in apply_prompt_template
    config,                 \* self.conversation_template_config: chat_template, system
    tokenizer_chat_template,\* self.tokenizer.chat_template
    input_text,             \* the VQASample: context, answers
    messages,               \* local of apply_prompt_template
    msg_i,                  \* index of the loop of line 56
    templated_prompt,       \* the prompt apply_prompt_template returns
    prompt_tokens,          \* what tokenize returns
    labels,                 \* what compute_labels returns
    output_sample,          \* the fields encode stores
    enc_err                 \* exception raised by encode, "" if none

\* scripts/asr_language_modeling/ngram_lm/create_lexicon_from_arpa.py, save().
VARIABLES
    save_pc,                \* position in save
    args,                   \* lower, tokenizer, langid
    arpa_exists,            \* os.path.exists(arpa)
    arpa,                   \* the lines of the ARPA file
    lexicon,                \* the lexicon file: Absent or its lines
    line_no,                \* lines of the ARPA file read so far
    exit_status,            \* status passed to exit(), -1 if exit was not called
    save_err                \* exception raised by save, "" if none

vmVars == <<pc, tokens, vision_token_id, vision_token_locations, vision_masks,
            i, last_mask_end, cursor, result, err>>

encVars == <<enc_pc, tmpl_pc, config, tokenizer_chat_template, input_text, messages, msg_i,
             templated_prompt, prompt_tokens, labels, output_sample, enc_err>>

saveVars == <<save_pc, args, arpa_exists, arpa, lexicon, line_no, exit_status, save_err>>

vars == <<vmVars, earlier, encVars, saveVars>>

\* Python's None where a string is expected.
None == "None"

\* A Python value of the sample: its type and, for a str or a list of str, its text(s).
NoneValue == [type |-> "NoneType", val |-> <<>>]

\* The output sample before encode has stored anything.
EmptySample == [tokens |-> <<>>, labels |-> <<>>, vision_mask |-> <<>>]

\* A file that is not on disk.
Absent == [exists |-> FALSE, lines |-> <<>>]

InitEncoder ==
    /\ enc_pc = "unbuilt"
    /\ tmpl_pc = "idle"
    /\ config = [chat_template |-> None, system |-> None]
    /\ tokenizer_chat_template = None
    /\ input_text = [context |-> NoneValue, answers |-> NoneValue]
    /\ messages = <<>>
    /\ msg_i = 0
    /\ templated_prompt = <<>>
    /\ prompt_tokens = <<>>
    /\ labels = <<>>
    /\ output_sample = EmptySample
    /\ enc_err = ""

InitSave ==
    /\ save_pc = "idle"
    /\ args = [lower |-> FALSE, tokenizer |-> None, langid |-> None]
    /\ arpa_exists = FALSE
    /\ arpa = <<>>
    /\ lexicon = Absent
    /\ line_no = 0
    /\ exit_status = -1
    /\ save_err = ""

Init ==
    /\ earlier = <<>>
    /\ InitEncoder
    /\ InitSave
    /\ pc = "idle"
    /\ tokens = <<>>
    /\ vision_token_id = 9
    /\ vision_token_locations = EmptyTensor
    /\ vision_masks = <<>>
    /\ i = 0
    /\ last_mask_end = 0
    /\ cursor = 0
    /\ result = <<>>
    /\ err = ""

\* A caller invokes create_vision_mask_tensor(tokens, vision_token_id).
Call ==
    /\ pc \in {"idle", "done", "raised"}
    /\ \E toks \in TokenSequences, id \in VisionIds :
          /\ tokens' = toks
          /\ vision_token_id' = id
    /\ pc' = "locate"
    /\ vision_token_locations' = EmptyTensor
    /\ vision_masks' = <<>>
    /\ i' = 0
    /\ last_mask_end' = 0
    /\ cursor' = 0
    /\ result' = <<>>
    /\ err' = ""
    /\ UNCHANGED <<earlier, encVars, saveVars>>

Raise(e) ==
    /\ pc' = "raised"
    /\ err' = e
    /\ UNCHANGED <<tokens, vision_token_id, vision_token_locations, vision_masks,
                   i, last_mask_end, cursor, result>>

\* line 117 with the comparison done in place (tokens.eq_), overwriting the argument (a mutant)
LocateInPlace ==
    /\ pc = "locate"
    /\ vision_token_locations' = Squeeze(Nonzero(tokens, vision_token_id))
    /\ tokens' = [n \in DOMAIN tokens |-> IF tokens[n] = vision_token_id THEN 1 ELSE 0]
    /\ pc' = "check"
    /\ UNCHANGED <<vision_token_id, vision_masks, i, last_mask_end, cursor, result, err>>
    /\ UNCHANGED <<earlier, encVars, saveVars>>

\* line 117
Locate ==
    /\ pc = "locate"
    /\ vision_token_locations' = Squeeze(Nonzero(tokens, vision_token_id))
    /\ pc' = "check"
    /\ UNCHANGED <<tokens, vision_token_id, vision_masks, i, last_mask_end,
                   cursor, result, err>>
    /\ UNCHANGED <<earlier, encVars, saveVars>>

\* line 120: vision_token_locations.numel() == 0 (mutant: the test is dropped)
NoneFoundNever(locs) == FALSE

NoneFound(locs) == Numel(locs) = 0

\* line 126: vision_token_locations.numel() == 1 (mutant: the special case is dropped)
OnlyOneNever(locs) == FALSE

OnlyOne(locs) == Numel(locs) = 1

\* len(tokens) on lines 127 and 133 (mutant: the last index instead of the length)
SeqLenLastIndex(toks) == Len(toks) - 1

SeqLen(toks) == Len(toks)

\* lines 120-121: no vision token, return torch.empty(0, 2)
ReturnEmpty ==
    /\ pc = "check"
    /\ NoneFound(vision_token_locations)
    /\ result' = <<>>
    /\ pc' = "done"
    /\ UNCHANGED <<tokens, vision_token_id, vision_token_locations, vision_masks,
                   i, last_mask_end, cursor, err>>
    /\ UNCHANGED <<earlier, encVars, saveVars>>

\* lines 123-127: exactly one vision token
BuildSingle ==
    /\ pc = "check"
    /\ ~NoneFound(vision_token_locations)
    /\ OnlyOne(vision_token_locations)
    /\ IF ItemOk(vision_token_locations)
       THEN /\ vision_masks' = <<<<Item(vision_token_locations), SeqLen(tokens)>>>>
            /\ pc' = "merge_init"
            /\ UNCHANGED <<tokens, vision_token_id, vision_token_locations,
                           i, last_mask_end, cursor, result, err>>
       ELSE Raise("RuntimeError")
    /\ UNCHANGED <<earlier, encVars, saveVars>>

\* lines 123, 128-130: several vision tokens, range(len(vision_token_locations) - 1)
EnterPairs ==
    /\ pc = "check"
    /\ ~NoneFound(vision_token_locations)
    /\ ~OnlyOne(vision_token_locations)
    /\ IF LenOk(vision_token_locations)
       THEN /\ i' = 0
            /\ vision_masks' = <<>>
            /\ pc' = "pairs"
            /\ UNCHANGED <<tokens, vision_token_id, vision_token_locations,
                           last_mask_end, cursor, result, err>>
       ELSE Raise("TypeError")
    /\ UNCHANGED <<earlier, encVars, saveVars>>

\* line 131 with an inclusive end, the position before the next vision token (a mutant)
PairMaskClosed(locs, n) == <<IndexItem(locs, n), IndexItem(locs, n + 1) - 1>>

\* line 131: [vision_token_locations[i].item(), vision_token_locations[i + 1].item()]
PairMask(locs, n) == <<IndexItem(locs, n), IndexItem(locs, n + 1)>>

\* lines 130-131: one iteration of the pairwise loop
PairStep ==
    /\ pc = "pairs"
    /\ i < TensorLen(vision_token_locations) - 1
    /\ IF IndexOk(vision_token_locations, i) /\ IndexOk(vision_token_locations, i + 1)
       THEN /\ vision_masks' = Append(vision_masks, PairMask(vision_token_locations, i))
            /\ i' = i + 1
            /\ UNCHANGED <<pc, tokens, vision_token_id, vision_token_locations,
                           last_mask_end, cursor, result, err>>
       ELSE Raise("IndexError")
    /\ UNCHANGED <<earlier, encVars, saveVars>>

\* line 133: the last vision token attends to all subsequent text
PairsEnd ==
    /\ pc = "pairs"
    /\ i >= TensorLen(vision_token_locations) - 1
    /\ IF IndexOk(vision_token_locations, -1)
       THEN /\ vision_masks' = Append(vision_masks,
                                 <<IndexItem(vision_token_locations, -1), SeqLen(tokens)>>)
            /\ pc' = "merge_init"
            /\ UNCHANGED <<tokens, vision_token_id, vision_token_locations,
                           i, last_mask_end, cursor, result, err>>
       ELSE Raise("IndexError")
    /\ UNCHANGED <<earlier, encVars, saveVars>>

\* line 136: last_mask_end = vision_masks[-1][1]; reversed() starts at the last element
MergeInit ==
    /\ pc = "merge_init"
    /\ IF vision_masks # <<>>
       THEN /\ last_mask_end' = vision_masks[Len(vision_masks)][2]
            /\ cursor' = Len(vision_masks)
            /\ pc' = "merge"
            /\ UNCHANGED <<tokens, vision_token_id, vision_token_locations,
                           vision_masks, i, result, err>>
       ELSE Raise("IndexError")
    /\ UNCHANGED <<earlier, encVars, saveVars>>

\* line 138 (mutants: the test never holds; the test is <= instead of ==)
IsSingleSpanNever(m) == FALSE

IsSingleSpanLoose(m) == m[1] <= m[2] - 1

\* line 138: vision_mask[0] == vision_mask[1] - 1
IsSingleSpan(m) == m[1] = m[2] - 1

\* lines 138-139 as a merge that also deletes the absorbed following range (a mutant)
MergeUpdateDedupe(masks, n, lme) ==
    IF IsSingleSpan(masks[n])
    THEN LET widened == [masks EXCEPT ![n] = <<masks[n][1], lme>>]
         IN  IF n < Len(masks)
             THEN SubSeq(widened, 1, n) \o SubSeq(widened, n + 2, Len(widened))
             ELSE widened
    ELSE masks

\* lines 138-139: the n-th list is mutated in place, nothing is deleted
MergeUpdate(masks, n, lme) ==
    IF IsSingleSpan(masks[n])
    THEN [masks EXCEPT ![n] = <<masks[n][1], lme>>]
    ELSE masks

\* line 140 left out, last_mask_end keeps its initial value (a mutant)
CarriedEndStale(m, lme) == lme

\* line 140: last_mask_end = vision_mask[1]
CarriedEnd(m, lme) == m[2]

\* lines 137-140: one iteration of the reverse scan
MergeStep ==
    /\ pc = "merge"
    /\ cursor >= 1
    /\ vision_masks' = MergeUpdate(vision_masks, cursor, last_mask_end)
    /\ last_mask_end' = CarriedEnd(vision_masks'[cursor], last_mask_end)
    /\ cursor' = cursor - 1
    /\ UNCHANGED <<pc, tokens, vision_token_id, vision_token_locations, i, result, err>>
    /\ UNCHANGED <<earlier, encVars, saveVars>>

\* line 142: return torch.tensor(vision_masks, dtype=torch.long)
Return ==
    /\ pc = "merge"
    /\ cursor = 0
    /\ result' = vision_masks
    /\ pc' = "done"
    /\ UNCHANGED <<tokens, vision_token_id, vision_token_locations, vision_masks,
                   i, last_mask_end, cursor, err>>
    /\ UNCHANGED <<earlier, encVars, saveVars>>

\* The statements of one call, in program order.
Step ==
    \/ Locate
    \/ ReturnEmpty
    \/ BuildSingle
    \/ EnterPairs
    \/ PairStep
    \/ PairsEnd
    \/ MergeInit
    \/ MergeStep
    \/ Return

Next == Call \/ Step

Spec == Init /\ [][Next]_vars

\* The interpreter runs a call to its end: a statement that can execute does.
FairSpec == Spec /\ WF_vars(Step)

\* The observer notes a finished call on a short sequence, once.
Remember ==
    /\ pc = "done"
    /\ earlier = <<>>
    /\ Len(tokens) <= ObservedLen
    /\ earlier' = <<[tokens |-> tokens, vision_token_id |-> vision_token_id, result |-> result]>>
    /\ UNCHANGED <<vmVars, encVars, saveVars>>

NextObserved == Call \/ Step \/ Remember

\* Calls of create_vision_mask_tensor, one of which an observer has noted.
ObservedSpec == Init /\ [][NextObserved]_vars

\* ---------------------------------------------------------------- the sample encoder
\* Longest templated prompt, in characters.
MaxPromptLen == 5

\* Most turns in a list-valued context or answers.
MaxTurns == 2

\* self.image_token.token_str, as a sequence of characters, and self.image_token.token_id.
ImageTokenStr == <<"<", ">">>
ImageTokenId == 9

\* Characters of a templated prompt: a letter and the two characters of the image token.
PromptChars == {"a", "<", ">"}

RECURSIVE StringsUpTo(_, _)
StringsUpTo(chars, n) == IF n = 0 THEN {<<>>}
                         ELSE StringsUpTo(chars, n - 1) \cup [1..n -> chars]

\* What tokenizer.apply_chat_template can return: any string.
Prompts == StringsUpTo(PromptChars, MaxPromptLen)

\* conversation_template_config.chat_template, tokenizer.chat_template, config.system.
ConfigTemplates == {None, "", "T1"}
TokenizerTemplates == {None, "", "T0"}
SystemPrompts == {None, "", "S"}

\* conversation_template_config.roles
Roles == <<"user", "assistant">>

StrValue(t) == [type |-> "str", val |-> <<t>>]
ListValue(l) == [type |-> "list", val |-> l]

\* Values of VQASample.context and VQASample.answers: a list of str, a str, or None.
ContextValues ==
    {ListValue(l) : l \in StringsUpTo({"q1", "q2"}, MaxTurns)} \cup {StrValue("q1"), NoneValue}
AnswerValues ==
    {ListValue(l) : l \in StringsUpTo({"a1", "a2"}, MaxTurns)} \cup {StrValue("a1"), NoneValue}

\* Samples passed to apply_prompt_template directly, and those passed to encode.
Samples == [context : ContextValues, answers : AnswerValues]
EncodeSamples ==
    {[context |-> StrValue("q1"), answers |-> StrValue("a1")],
     [context |-> ListValue(<<"q1", "q2">>), answers |-> ListValue(<<"a1">>)],
     [context |-> ListValue(<<"q1">>), answers |-> StrValue("a1")]}

\* Python truthiness of an Optional[str].
Truthy(x) == x \notin {None, ""}

\* isinstance(v, list), isinstance(v, str)
IsList(v) == v.type = "list"
IsStr(v) == v.type = "str"

\* lines 21-32: __init__ binds the tokenizer and the conversation template configuration
Construct ==
    /\ enc_pc = "unbuilt"
    /\ \E ct \in ConfigTemplates, sp \in SystemPrompts :
          config' = [chat_template |-> ct, system |-> sp]
    /\ tokenizer_chat_template' \in TokenizerTemplates
    /\ enc_pc' = "idle"
    /\ UNCHANGED <<tmpl_pc, input_text, messages, msg_i, templated_prompt,
                   prompt_tokens, labels, output_sample, enc_err>>
    /\ UNCHANGED <<vmVars, earlier, saveVars>>

\* A caller invokes apply_prompt_template(input_text) directly.
ApplyCall ==
    /\ enc_pc = "idle"
    /\ tmpl_pc = "idle"
    /\ input_text' \in Samples
    /\ tmpl_pc' = "select"
    /\ UNCHANGED <<enc_pc, config, tokenizer_chat_template, messages, msg_i,
                   templated_prompt, prompt_tokens, labels, output_sample, enc_err>>
    /\ UNCHANGED <<vmVars, earlier, saveVars>>

\* line 145: encode(input_sample, output_sample) starts with apply_prompt_template
EncodeCall ==
    /\ enc_pc = "idle"
    /\ tmpl_pc = "idle"
    /\ input_text' \in EncodeSamples
    /\ enc_pc' = "template"
    /\ tmpl_pc' = "select"
    /\ UNCHANGED <<config, tokenizer_chat_template, messages, msg_i,
                   templated_prompt, prompt_tokens, labels, output_sample, enc_err>>
    /\ UNCHANGED <<vmVars, earlier, saveVars>>

\* apply_prompt_template raises e; inside encode the exception leaves encode too.
TemplateRaise(e) ==
    /\ tmpl_pc' = "raised"
    /\ enc_err' = e
    /\ enc_pc' = IF enc_pc = "template" THEN "raised" ELSE enc_pc

\* line 41 with a truthiness test in place of "is None" (a mutant)
TokenizerLacksTemplateFalsy(t) == ~Truthy(t)

\* line 41: self.tokenizer.chat_template is None
TokenizerLacksTemplate(t) == t = None

\* lines 39-45: choose the chat template
SelectTemplate ==
    /\ tmpl_pc = "select"
    /\ IF Truthy(config.chat_template)
       THEN /\ tokenizer_chat_template' = config.chat_template
            /\ tmpl_pc' = "system"
            /\ UNCHANGED <<enc_pc, enc_err>>
       ELSE IF TokenizerLacksTemplate(tokenizer_chat_template)
            THEN /\ TemplateRaise("ValueError")
                 /\ UNCHANGED tokenizer_chat_template
            ELSE /\ tmpl_pc' = "system"
                 /\ UNCHANGED <<enc_pc, enc_err, tokenizer_chat_template>>
    /\ UNCHANGED <<config, input_text, messages, msg_i, templated_prompt,
                   prompt_tokens, labels, output_sample>>
    /\ UNCHANGED <<vmVars, earlier, saveVars>>

Message(role, text) == [role |-> role, text |-> text]

\* line 48: if self.conversation_template_config.system
HasSystem(sp) == Truthy(sp)

\* lines 47-51: messages = [], then the system message if one is configured
SystemMessage ==
    /\ tmpl_pc = "system"
    /\ messages' = IF HasSystem(config.system)
                   THEN <<Message("system", config.system)>>
                   ELSE <<>>
    /\ tmpl_pc' = "dispatch"
    /\ UNCHANGED <<enc_pc, config, tokenizer_chat_template, input_text, msg_i,
                   templated_prompt, prompt_tokens, labels, output_sample, enc_err>>
    /\ UNCHANGED <<vmVars, earlier, saveVars>>

\* lines 53, 69, 83-86: the types of context and answers decide
Dispatch ==
    /\ tmpl_pc = "dispatch"
    /\ IF IsList(input_text.context) /\ IsList(input_text.answers)
       THEN /\ msg_i' = 0
            /\ tmpl_pc' = "turns"
            /\ UNCHANGED <<enc_pc, enc_err, messages>>
       ELSE IF IsStr(input_text.context) /\ IsStr(input_text.answers)
            THEN /\ messages' = messages
                                \o <<Message(Roles[1], input_text.context.val[1]),
                                     Message(Roles[2], input_text.answers.val[1])>>
                 /\ tmpl_pc' = "render"
                 /\ UNCHANGED <<enc_pc, enc_err, msg_i>>
            ELSE /\ TemplateRaise("ValueError")
                 /\ UNCHANGED <<messages, msg_i>>
    /\ UNCHANGED <<config, tokenizer_chat_template, input_text, templated_prompt,
                   prompt_tokens, labels, output_sample>>
    /\ UNCHANGED <<vmVars, earlier, saveVars>>

\* line 55 taking the length of context alone (a mutant)
MinLengthOfContext(c, a) == Len(c)

\* line 55: min(len(input_text.context), len(input_text.answers))
MinLength(c, a) == IF Len(c) <= Len(a) THEN Len(c) ELSE Len(a)

\* lines 56-68: one turn, a roles[0] message and a roles[1] message
TurnStep ==
    /\ tmpl_pc = "turns"
    /\ msg_i < MinLength(input_text.context.val, input_text.answers.val)
    /\ IF msg_i < Len(input_text.context.val) /\ msg_i < Len(input_text.answers.val)
       THEN /\ messages' = messages
                           \o <<Message(Roles[1], input_text.context.val[msg_i + 1]),
                                Message(Roles[2], input_text.answers.val[msg_i + 1])>>
            /\ msg_i' = msg_i + 1
            /\ UNCHANGED <<enc_pc, tmpl_pc, enc_err>>
       ELSE /\ TemplateRaise("IndexError")
            /\ UNCHANGED <<messages, msg_i>>
    /\ UNCHANGED <<config, tokenizer_chat_template, input_text, templated_prompt,
                   prompt_tokens, labels, output_sample>>
    /\ UNCHANGED <<vmVars, earlier, saveVars>>

\* line 56: the loop is over
TurnsEnd ==
    /\ tmpl_pc = "turns"
    /\ msg_i >= MinLength(input_text.context.val, input_text.answers.val)
    /\ tmpl_pc' = "render"
    /\ UNCHANGED <<enc_pc, config, tokenizer_chat_template, input_text, messages, msg_i,
                   templated_prompt, prompt_tokens, labels, output_sample, enc_err>>
    /\ UNCHANGED <<vmVars, earlier, saveVars>>

\* lines 88-90: the tokenizer renders the messages with its chat template; the
\* template is the caller's, so the prompt returned is any string
Render ==
    /\ tmpl_pc = "render"
    /\ templated_prompt' \in Prompts
    /\ tmpl_pc' = "returned"
    /\ UNCHANGED <<enc_pc, config, tokenizer_chat_template, input_text, messages, msg_i,
                   prompt_tokens, labels, output_sample, enc_err>>
    /\ UNCHANGED <<vmVars, earlier, saveVars>>

\* The statements of apply_prompt_template.
TemplateStep ==
    \/ SelectTemplate
    \/ SystemMessage
    \/ Dispatch
    \/ TurnStep
    \/ TurnsEnd
    \/ Render

NextTemplate == Construct \/ ApplyCall \/ TemplateStep

\* An encoder is built and apply_prompt_template is called on a sample.
TemplateSpec == Init /\ [][NextTemplate]_vars

\* The first position (1-based) at or after n where sep occurs in s, 0 if none.
RECURSIVE FindFrom(_, _, _)
FindFrom(s, sep, n) ==
    IF n + Len(sep) - 1 > Len(s) THEN 0
    ELSE IF SubSeq(s, n, n + Len(sep) - 1) = sep THEN n
    ELSE FindFrom(s, sep, n + 1)

\* re.split without the capturing group: the separators are not returned (a mutant)
RECURSIVE ReSplitNoCapture(_, _)
ReSplitNoCapture(s, sep) ==
    LET at == FindFrom(s, sep, 1)
    IN  IF at = 0 THEN <<s>>
        ELSE <<SubSeq(s, 1, at - 1)>>
             \o ReSplitNoCapture(SubSeq(s, at + Len(sep), Len(s)), sep)

\* lines 93-94: re.split('(' + re.escape(token_str) + ')', prompt): the text before
\* the leftmost match, the match, and the split of what follows it
RECURSIVE ReSplit(_, _)
ReSplit(s, sep) ==
    LET at == FindFrom(s, sep, 1)
    IN  IF at = 0 THEN <<s>>
        ELSE <<SubSeq(s, 1, at - 1), sep>>
             \o ReSplit(SubSeq(s, at + Len(sep), Len(s)), sep)

\* The id the text tokenizer gives a character; it never gives the image token id.
TextTokenId(ch) == CASE ch = "a" -> 1
                     [] ch = "<" -> 2
                     [] ch = ">" -> 3

\* line 101: self.tokenizer(chunk, add_special_tokens=False).input_ids
TextTokenizer(chunk) == [n \in 1..Len(chunk) |-> TextTokenId(chunk[n])]

\* lines 96-101: the ids of the chunks, in order
RECURSIVE TokenizeChunks(_)
TokenizeChunks(chunks) ==
    IF chunks = <<>> THEN <<>>
    ELSE LET chunk == Head(chunks)
         IN  (IF chunk = ImageTokenStr THEN <<ImageTokenId>>
              ELSE IF Len(chunk) > 0 THEN TextTokenizer(chunk)
              ELSE <<>>)
             \o TokenizeChunks(Tail(chunks))

\* line 148, lines 92-103: tokens = self.tokenize(conversation_prompt)
Tokenize ==
    /\ enc_pc = "template"
    /\ tmpl_pc = "returned"
    /\ prompt_tokens' = TokenizeChunks(ReSplit(templated_prompt, ImageTokenStr))
    /\ enc_pc' = "labels"
    /\ UNCHANGED <<tmpl_pc, config, tokenizer_chat_template, input_text, messages, msg_i,
                   templated_prompt, labels, output_sample, enc_err>>
    /\ UNCHANGED <<vmVars, earlier, saveVars>>

\* The label of a position that takes no part in the loss.
IgnoreIndex == -100

\* VQASampleEncoder.compute_labels: one label per token
ComputeLabels(toks) == [n \in 1..Len(toks) |-> IgnoreIndex]

\* line 149: labels = self.compute_labels(tokens, input_sample)
Labels ==
    /\ enc_pc = "labels"
    /\ labels' = ComputeLabels(prompt_tokens)
    /\ enc_pc' = "shift"
    /\ UNCHANGED <<tmpl_pc, config, tokenizer_chat_template, input_text, messages, msg_i,
                   templated_prompt, prompt_tokens, output_sample, enc_err>>
    /\ UNCHANGED <<vmVars, earlier, saveVars>>

\* line 151 without the shift (a mutant)
DropLastKeep(s) == s

\* line 151: tokens[:-1]
DropLast(s) == IF s = <<>> THEN <<>> ELSE SubSeq(s, 1, Len(s) - 1)

\* line 152: labels[1:]
DropFirst(s) == IF s = <<>> THEN <<>> ELSE SubSeq(s, 2, Len(s))

\* lines 151-156: shift tokens and labels, then call create_vision_mask_tensor
\* on the shifted tokens with the image token id
Shift ==
    /\ enc_pc = "shift"
    /\ prompt_tokens' = DropLast(prompt_tokens)
    /\ labels' = DropFirst(labels)
    /\ enc_pc' = "mask"
    /\ tokens' = prompt_tokens'
    /\ vision_token_id' = ImageTokenId
    /\ pc' = "locate"
    /\ vision_token_locations' = EmptyTensor
    /\ vision_masks' = <<>>
    /\ i' = 0
    /\ last_mask_end' = 0
    /\ cursor' = 0
    /\ result' = <<>>
    /\ err' = ""
    /\ UNCHANGED <<tmpl_pc, config, tokenizer_chat_template, input_text, messages, msg_i,
                   templated_prompt, output_sample, enc_err>>
    /\ UNCHANGED <<earlier, saveVars>>

\* lines 157-167: once create_vision_mask_tensor has returned, store the fields
Store ==
    /\ enc_pc = "mask"
    /\ pc \in {"done", "raised"}
    /\ IF pc = "done"
       THEN /\ output_sample' = [tokens |-> prompt_tokens, labels |-> labels,
                                 vision_mask |-> result]
            /\ enc_pc' = "encoded"
            /\ UNCHANGED enc_err
       ELSE /\ enc_pc' = "raised"
            /\ enc_err' = err
            /\ UNCHANGED output_sample
    /\ UNCHANGED <<tmpl_pc, config, tokenizer_chat_template, input_text, messages, msg_i,
                   templated_prompt, prompt_tokens, labels>>
    /\ UNCHANGED <<vmVars, earlier, saveVars>>

\* The statements of encode outside apply_prompt_template and create_vision_mask_tensor.
EncodeStep == Tokenize \/ Labels \/ Shift \/ Store

NextEncode == Construct \/ EncodeCall \/ TemplateStep \/ EncodeStep \/ Step

\* An encoder is built and encode is called on a sample.
EncodeSpec == Init /\ [][NextEncode]_vars

\* ---------------------------------------------------------------- create_lexicon_from_arpa.save
\* Most lines of an ARPA file.
MaxArpaLines == 2

\* Characters: whitespace, and the classes the pattern of line 43 names.
Whitespace == {" ", "\t", "\n"}
Dashes == {"-"}
NumDots == {"0", "1", "."}
ArpaChars == Whitespace \cup Dashes \cup NumDots
             \cup {"\\", "a", "b", "z", "A", "<", ">", "/", "u", "n", "k", "s", "U", "N", "K", "S"}
NonSpace == ArpaChars \ Whitespace

\* Lines an ARPA file is made of: a section header, a blank line, unigrams with
\* and without a back-off weight, the special words, and a bigram.
ArpaLines ==
    {<<"\\", "1", "\n">>,
     <<"\n">>,
     <<"-", "1", ".", "0", "\t", "a", "\t", "-", "0", ".", "1", "\n">>,
     <<"-", "1", "\t", "A", "\n">>,
     <<"-", "1", "\t", "z", "b">>,
     <<"-", "1", "\t", "<", "u", "n", "k", ">", "\t", "-", "1", "\n">>,
     <<"-", "1", "\t", "<", "U", "N", "K", ">", "\n">>,
     <<"-", "1", "\t", "<", "s", ">", "\t", "-", "1", "\n">>,
     <<"-", "1", "\t", "<", "S", ">", "\t", "-", "1", "\n">>,
     <<"-", "1", "\t", "<", "/", "s", ">", "\n">>,
     <<"-", "1", "\t", "a", " ", "b", "\t", "-", "1", "\n">>}

ArpaFiles == StringsUpTo(ArpaLines, MaxArpaLines)

\* The lexicon file before save runs: not there, or there with a line in it.
OldLexicon == [exists |-> TRUE, lines |-> <<<<"o", "\t", "o", "\n">>>>]

\* --lower; the tokenizer of the model (none, a plain one, an AggregateTokenizer); --langid.
SaveArgs == [lower : BOOLEAN, tokenizer : {None, "plain", "aggregate"}, langid : {None, "", "en"}]

\* The positions after zero or more characters of class cls, from the positions in from.
StarFrom(s, from, cls) ==
    {q \in 1..(Len(s) + 1) : \E p \in from : p <= q /\ \A r \in p..(q - 1) : s[r] \in cls}

\* The positions after exactly one character of class cls.
OneFrom(s, from, cls) == {p + 1 : p \in {q \in from : q <= Len(s) /\ s[q] \in cls}}

\* The positions after one or more characters of class cls.
PlusFrom(s, from, cls) == StarFrom(s, OneFrom(s, from, cls), cls)

\* The positions re.match can reach before the $ of
\* [-]*[0-9\.]+\t\S+\t*[-]*[0-9\.]*$
BeforeDollar(s) ==
    LET number == PlusFrom(s, StarFrom(s, {1}, Dashes), NumDots)
        word == PlusFrom(s, OneFrom(s, number, {"\t"}), NonSpace)
    IN  StarFrom(s, StarFrom(s, StarFrom(s, word, {"\t"}), Dashes), NumDots)

\* line 43 without the $ (a mutant)
MatchUnigramUnanchored(s) == BeforeDollar(s) # {}

\* line 43: re.match(...); $ matches at the end and before a final newline
MatchUnigram(s) ==
    \E p \in BeforeDollar(s) : p = Len(s) + 1 \/ (p = Len(s) /\ s[p] = "\n")

\* line 45: line.split("\t")[1], the text between the first tab and the next
\* tab or the end; there is no such element when the line has no tab
SecondFieldOk(s) == FindFrom(s, <<"\t">>, 1) # 0
SecondField(s) ==
    LET first == FindFrom(s, <<"\t">>, 1)
        next == FindFrom(s, <<"\t">>, first + 1)
    IN  SubSeq(s, first + 1, IF next = 0 THEN Len(s) ELSE next - 1)

\* str.strip()
RECURSIVE Strip(_)
Strip(s) ==
    IF s = <<>> THEN s
    ELSE IF Head(s) \in Whitespace THEN Strip(Tail(s))
    ELSE IF s[Len(s)] \in Whitespace THEN Strip(SubSeq(s, 1, Len(s) - 1))
    ELSE s

\* str.lower()
LowerChar(ch) == CASE ch = "A" -> "a"
                   [] ch = "U" -> "u"
                   [] ch = "N" -> "n"
                   [] ch = "K" -> "k"
                   [] ch = "S" -> "s"
                   [] OTHER -> ch
Lower(s) == [n \in 1..Len(s) |-> LowerChar(s[n])]

\* line 46
WordOf(s, lower) == IF lower THEN Lower(Strip(SecondField(s))) ELSE Strip(SecondField(s))

\* line 47: the words that are never written
IsSpecial(w) == \/ w = <<"<", "U", "N", "K", ">">>
                \/ w = <<"<", "u", "n", "k", ">">>
                \/ w = <<"<", "s", ">">>
                \/ w = <<"<", "/", "s", ">">>

\* " ".join(pieces)
RECURSIVE JoinSpaces(_)
JoinSpaces(pieces) ==
    IF Len(pieces) <= 1 THEN pieces
    ELSE <<Head(pieces), " ">> \o JoinSpaces(Tail(pieces))

\* "{w}\t{s}\n".format(w=word, s=" ".join(pieces))
LexiconLine(word, pieces) == word \o <<"\t">> \o JoinSpaces(pieces) \o <<"\n">>

\* The tokenizer of the model: its unk_id, and text_to_ids and text_to_tokens,
\* which here work character by character and do not know the letter z.
UnkId == 0
TextToIds(word) == [n \in 1..Len(word) |-> IF word[n] = "z" THEN UnkId ELSE 1]
TextToTokens(word) == word

\* line 62 with the test left out (a mutant)
HasUnkNever(ids) == FALSE

\* line 62: tokenizer.unk_id in w_ids
HasUnk(ids) == \E n \in DOMAIN ids : ids[n] = UnkId

\* line 54 as a test for None (a mutant)
LangidMissingIsNone(l) == l = None

\* line 54: not langid
LangidMissing(l) == ~Truthy(l)

\* line 34 with the test left out (a mutant)
ArpaMissingNever(exists) == FALSE

\* line 34: not os.path.exists(arpa)
ArpaMissing(exists) == ~exists

\* __main__ calls save(arpa, lexicon_file, lower, tokenizer, langid) once; the
\* ARPA file and the lexicon file are what the disk holds at that time.
SaveCall ==
    /\ save_pc = "idle"
    /\ args' \in SaveArgs
    /\ \/ arpa_exists' = TRUE /\ arpa' \in ArpaFiles
       \/ arpa_exists' = FALSE /\ arpa' = <<>>
    /\ lexicon' \in {Absent, OldLexicon}
    /\ save_pc' = "check"
    /\ UNCHANGED <<line_no, exit_status, save_err>>
    /\ UNCHANGED <<vmVars, earlier, encVars>>

\* lines 34-36
CheckArpa ==
    /\ save_pc = "check"
    /\ IF ArpaMissing(arpa_exists)
       THEN /\ exit_status' = 255
            /\ save_pc' = "exited"
       ELSE /\ save_pc' = "open"
            /\ UNCHANGED exit_status
    /\ UNCHANGED <<args, arpa_exists, arpa, lexicon, line_no, save_err>>
    /\ UNCHANGED <<vmVars, earlier, encVars>>

\* lines 38-40: open(lexicon_file, "w") creates or truncates the lexicon, then
\* open(arpa, "r") raises if the file is not there
OpenFiles ==
    /\ save_pc = "open"
    /\ lexicon' = [exists |-> TRUE, lines |-> <<>>]
    /\ IF arpa_exists
       THEN /\ save_pc' = "loop"
            /\ line_no' = 0
            /\ UNCHANGED save_err
       ELSE /\ save_pc' = "raised"
            /\ save_err' = "FileNotFoundError"
            /\ UNCHANGED line_no
    /\ UNCHANGED <<args, arpa_exists, arpa, exit_status>>
    /\ UNCHANGED <<vmVars, earlier, encVars>>

\* lines 41-63: the next line of the ARPA file
ReadLine ==
    /\ save_pc = "loop"
    /\ line_no < Len(arpa)
    /\ LET line == arpa[line_no + 1]
           word == WordOf(line, args.lower)
           skip == /\ line_no' = line_no + 1
                   /\ UNCHANGED <<save_pc, lexicon, save_err>>
           write(pieces) ==
                   /\ lexicon' = [lexicon EXCEPT !.lines = Append(@, LexiconLine(word, pieces))]
                   /\ line_no' = line_no + 1
                   /\ UNCHANGED <<save_pc, save_err>>
           raise(e) ==
                   /\ save_pc' = "raised"
                   /\ save_err' = e
                   /\ UNCHANGED <<lexicon, line_no>>
       IN  IF ~MatchUnigram(line) THEN skip
           ELSE IF ~SecondFieldOk(line) THEN raise("IndexError")
           ELSE IF IsSpecial(word) THEN skip
           ELSE IF args.tokenizer = None THEN write(word)
           ELSE IF args.tokenizer = "aggregate"
                THEN IF LangidMissing(args.langid) THEN raise("ValueError")
                     ELSE write(TextToTokens(word))
           ELSE IF ~HasUnk(TextToIds(word)) THEN write(TextToTokens(word))
           ELSE skip
    /\ UNCHANGED <<args, arpa_exists, arpa, exit_status>>
    /\ UNCHANGED <<vmVars, earlier, encVars>>

\* line 41: the ARPA file is exhausted, both files are closed
Finish ==
    /\ save_pc = "loop"
    /\ line_no >= Len(arpa)
    /\ save_pc' = "done"
    /\ UNCHANGED <<args, arpa_exists, arpa, lexicon, line_no, exit_status, save_err>>
    /\ UNCHANGED <<vmVars, earlier, encVars>>

NextSave == SaveCall \/ CheckArpa \/ OpenFiles \/ ReadLine \/ Finish

\* The script runs save once.
SaveSpec == Init /\ [][NextSave]_vars

TypeOK ==
    /\ pc \in {"idle", "locate", "check", "pairs", "merge_init", "merge", "done", "raised"}
    /\ Len(tokens) <= MaxLen
    /\ vision_token_id \in VisionIds
    /\ cursor \in 0..MaxLen
    /\ i \in 0..MaxLen
    /\ enc_pc \in {"unbuilt", "idle", "template", "labels", "shift", "mask", "encoded", "raised"}
    /\ tmpl_pc \in {"idle", "select", "system", "dispatch", "turns", "render", "returned", "raised"}
    /\ msg_i \in 0..MaxTurns
    /\ enc_pc \in {"shift", "mask", "encoded"} => Len(labels) = Len(prompt_tokens)
    /\ save_pc \in {"idle", "check", "exited", "open", "loop", "done", "raised"}
    /\ line_no \in 0..MaxArpaLines
    /\ exit_status \in {-1, 255}

\* ---------------------------------------------------------------- vocabulary of the claims
\* N, the length of the token sequence passed in.
N == Len(tokens)

\* The positions (0-based) of the vision tokens in the sequence passed in.
Positions == {p \in 0..(N - 1) : tokens[p + 1] = vision_token_id}

\* k, the number of vision-token occurrences.
K == Cardinality(Positions)

\* p_{n-1}: the n-th smallest position, n in 1..K.
Pth(n) == CHOOSE p \in Positions : Cardinality({q \in Positions : q < p}) = n - 1

\* No two vision tokens are adjacent.
NoAdjacent == \A p \in Positions : (p + 1) \notin Positions

\* Positions s <= t lie in one run of adjacent vision tokens.
SameRun(s, t) == \A q \in s..t : q \in Positions

\* The call has ended, by a return or by an exception.
Finished == pc \in {"done", "raised"}

Returned == pc = "done"

\* Half-open ranges a and b share a position.
Overlap(a, b) == a[1] < b[2] /\ b[1] < a[2]

\* The positions a list of half-open ranges covers.
Covered(masks) == UNION {{q \in 0..N : masks[n][1] <= q /\ q < masks[n][2]} : n \in DOMAIN masks}

\* The ranges (p_i, p_{i+1}), i < k-1, followed by (p_{k-1}, N).
RawRanges == [n \in 1..K |-> <<Pth(n), IF n < K THEN Pth(n + 1) ELSE N>>]

\* e_{n-1} of the merge rule: N for the last range, the next position if it is
\* not adjacent, and otherwise the end of the next range.
RECURSIVE MergedEnd(_)
MergedEnd(n) ==
    IF n >= K THEN N
    ELSE IF Pth(n + 1) > Pth(n) + 1 THEN Pth(n + 1)
    ELSE MergedEnd(n + 1)

\* The position of the first vision token after the run that holds p, or N.
RunEnd(p) ==
    LET later == {q \in Positions : q > p /\ ~SameRun(p, q)}
    IN  IF later = {} THEN N
        ELSE CHOOSE q \in later : \A r \in later : q <= r

\* ---------------------------------------------------------------- claims

\* C1: a call on a sequence with no occurrence of vision_token_id (the empty
\* sequence included) returns the empty mask.
C1_NoVisionTokenGivesEmptyMask ==
    (Finished /\ Positions = {}) => (Returned /\ result = <<>>)

C1_Witness == Returned /\ Positions = {} /\ N >= 1 /\ result = <<>>

\* C2: with exactly one occurrence, at position p, the call returns the single
\* range (p, N), also when p = N-1.
C2_SingleOccurrenceRange ==
    (Finished /\ K = 1) => (Returned /\ result = <<<<Pth(1), N>>>>)

C2_Witness == Returned /\ K = 1 /\ N >= 2 /\ Pth(1) = N - 1 /\ result = <<<<N - 1, N>>>>

\* C3: with k >= 2 occurrences no two of which are adjacent, the call returns
\* (p_i, p_{i+1}) for i < k-1 followed by (p_{k-1}, N), and the merge pass
\* leaves the list as the pairwise construction built it.
C3_NonAdjacentRanges ==
    (K >= 2 /\ NoAdjacent) =>
        /\ Finished => (Returned /\ result = RawRanges)
        /\ pc = "merge" => vision_masks = RawRanges

C3_Witness == Returned /\ K = 3 /\ NoAdjacent /\ Pth(3) = N - 1 /\ result = RawRanges

\* C4 as stated: two adjacent occurrences p, p+1 and no other give the single
\* range (p, N).
C4_AdjacentPairSingleRange ==
    (Finished /\ K = 2 /\ Pth(2) = Pth(1) + 1) =>
        (Returned /\ result = <<<<Pth(1), N>>>>)

\* C4 amended: two adjacent occurrences p, p+1 and no other give two ranges,
\* (p, N) and (p+1, N): the first is widened to N, the second is kept.
C4_AdjacentPairBothKept ==
    (Finished /\ K = 2 /\ Pth(2) = Pth(1) + 1) =>
        (Returned /\ result = <<<<Pth(1), N>>, <<Pth(1) + 1, N>>>>)

C4_Witness ==
    /\ Returned /\ K = 2 /\ Pth(2) = Pth(1) + 1 /\ Pth(2) < N - 1
    /\ result = <<<<Pth(1), N>>, <<Pth(2), N>>>>

\* C5 as stated: the returned ranges are pairwise non-overlapping.
C5_RangesNeverOverlap ==
    Returned => \A a, b \in DOMAIN result : a < b => ~Overlap(result[a], result[b])

\* C5 amended: two returned ranges overlap exactly when their vision tokens lie
\* in one run of adjacent vision tokens; ranges of different runs, and all
\* ranges of a sequence without adjacent vision tokens, do not overlap.
C5_OverlapOnlyWithinRun ==
    Returned => \A a, b \in DOMAIN result :
        a < b => (Overlap(result[a], result[b]) <=> SameRun(result[a][1], result[b][1]))

C5_Witness ==
    /\ Returned /\ Len(result) = 3
    /\ Overlap(result[1], result[2])
    /\ ~Overlap(result[1], result[3])
    /\ ~Overlap(result[2], result[3])

\* C6: when there is at least one vision token, the returned ranges cover
\* exactly the positions p_0 .. N-1.
C6_CoverageFromFirstVisionToken ==
    (Returned /\ K >= 1) => Covered(result) = Pth(1)..(N - 1)

C6_Witness ==
    /\ Returned /\ K >= 2 /\ Pth(1) >= 1 /\ Pth(K) < N - 1
    /\ Covered(result) = Pth(1)..(N - 1)

\* C7: every returned range (start, end) has 0 <= start < end <= N.
C7_RangesWellFormed ==
    Returned => \A n \in DOMAIN result :
        0 <= result[n][1] /\ result[n][1] < result[n][2] /\ result[n][2] <= N

C7_Witness == Returned /\ K >= 2 /\ Pth(K) = N - 1 /\ result[K] = <<N - 1, N>>

\* C8: the i-th returned range is (p_i, e_i) with e_{k-1} = N and, for i < k-1,
\* e_i = p_{i+1} if p_{i+1} > p_i + 1 and e_i = e_{i+1} otherwise; so the ranges
\* of one run of adjacent vision tokens end where the first vision token after
\* the run stands, or at N.
C8_MergeRule ==
    (Returned /\ K >= 1) =>
        /\ Len(result) = K
        /\ \A n \in 1..K : result[n] = <<Pth(n), MergedEnd(n)>>
        /\ \A n \in 1..K : result[n][2] = RunEnd(Pth(n))

C8_Witness ==
    /\ Returned /\ K = 3
    /\ Pth(2) = Pth(1) + 1 /\ Pth(3) > Pth(2) + 1
    /\ result[1][2] = Pth(3) /\ result[2][2] = Pth(3) /\ result[3][2] = N

\* C9: the merge pass keeps the number, the order and the starts of the ranges:
\* there are k of them during the scan and on return, the i-th starts at p_i,
\* and the starts increase strictly.
C9_MergeKeepsCountAndStarts ==
    pc \in {"merge", "done"} /\ K >= 1 =>
        LET masks == IF pc = "done" THEN result ELSE vision_masks
        IN  /\ Len(masks) = K
            /\ \A n \in 1..K : masks[n][1] = Pth(n)
            /\ \A a, b \in 1..K : a < b => masks[a][1] < masks[b][1]

C9_Witness ==
    /\ Returned /\ K >= 3 /\ Len(result) = K
    /\ \E n \in 1..(K - 1) : Pth(n + 1) = Pth(n) + 1 /\ result[n][2] > Pth(n + 1)

\* C10: every call terminates with a return and never raises, for every
\* sequence of length 0..MaxLen and every vision_token_id.
C10_TotalNoError ==
    /\ [](pc # "raised")
    /\ (pc = "locate") ~> (pc = "done")

C10_Witness == Returned /\ N >= 2 /\ K = N /\ Len(result) = N

\* C11: create_vision_mask_tensor is pure. No statement of a call changes the
\* token sequence it was given, its vision_token_id or the encoder's state
\* (the template configuration and the tokenizer's chat template), and a call
\* returns the mask an earlier call with equal arguments returned, whatever
\* calls were made in between.
C11_PureFunction ==
    /\ [][Step => UNCHANGED <<tokens, vision_token_id, config, tokenizer_chat_template>>]_vars
    /\ [](\A e \in {earlier[n] : n \in DOMAIN earlier} :
             (Returned /\ e.tokens = tokens /\ e.vision_token_id = vision_token_id)
                 => result = e.result)

C11_Witness ==
    /\ Returned /\ earlier # <<>>
    /\ earlier[1].tokens = tokens /\ earlier[1].vision_token_id = vision_token_id
    /\ result = <<<<0, 2>>, <<1, 2>>>> /\ result = earlier[1].result

\* ---------------------------------------------------------------- claims about the encoder
\* The ids of a prompt read from left to right from position n: the image
\* token id where the image token string stands, the text id of the character
\* elsewhere.
RECURSIVE IdsFrom(_, _)
IdsFrom(s, n) ==
    IF n > Len(s) THEN <<>>
    ELSE IF n + Len(ImageTokenStr) - 1 <= Len(s)
            /\ SubSeq(s, n, n + Len(ImageTokenStr) - 1) = ImageTokenStr
         THEN <<ImageTokenId>> \o IdsFrom(s, n + Len(ImageTokenStr))
         ELSE <<TextTokenId(s[n])>> \o IdsFrom(s, n + 1)

\* The positions (1-based) of a prompt where the image token string stands.
Occurrences(s) ==
    {n \in 1..Len(s) : /\ n + Len(ImageTokenStr) - 1 <= Len(s)
                       /\ SubSeq(s, n, n + Len(ImageTokenStr) - 1) = ImageTokenStr}

\* How many entries of a sequence are the image token id.
ImageCount(toks) == Cardinality({n \in DOMAIN toks : toks[n] = ImageTokenId})

\* The tokenized prompt of the sample being encoded.
FullTokens == IdsFrom(templated_prompt, 1)

C13_TokenizeSplitsOnImageToken ==
    enc_pc = "labels" =>
        /\ prompt_tokens = IdsFrom(templated_prompt, 1)
        /\ ImageCount(prompt_tokens) = Cardinality(Occurrences(templated_prompt))
        /\ Len(prompt_tokens) = Len(templated_prompt)
                - (Len(ImageTokenStr) - 1) * Cardinality(Occurrences(templated_prompt))

C13_Witness ==
    /\ enc_pc = "labels"
    /\ templated_prompt = ImageTokenStr \o ImageTokenStr \o <<"a">>
    /\ prompt_tokens = <<ImageTokenId, ImageTokenId, 1>>

\* C14: apply_prompt_template raises exactly when no chat template is defined
\* (the configured one is None or empty and the tokenizer's is None) or when
\* context and answers are not both lists or both strings, and what it raises
\* is ValueError; a configured chat template has replaced the tokenizer's from
\* line 40 on, also in the state in which the type error is raised.
C14_TemplateErrors ==
    LET configured == Truthy(config.chat_template)
        bothLists == IsList(input_text.context) /\ IsList(input_text.answers)
        bothStrs == IsStr(input_text.context) /\ IsStr(input_text.answers)
    IN  /\ tmpl_pc \in {"returned", "raised"} =>
              (tmpl_pc = "raised" <=>
                  \/ ~configured /\ tokenizer_chat_template = None
                  \/ ~(bothLists \/ bothStrs))
        /\ tmpl_pc = "raised" => enc_err = "ValueError"
        /\ (configured /\ tmpl_pc \notin {"idle", "select"}) =>
              tokenizer_chat_template = config.chat_template

C14_Witness ==
    /\ tmpl_pc = "raised" /\ enc_err = "ValueError"
    /\ config.chat_template = "T1" /\ tokenizer_chat_template = "T1"
    /\ IsList(input_text.context) /\ IsStr(input_text.answers)

\* C15: for list-valued context and answers the messages are the system
\* message (if and only if a system prompt is configured) followed, for each
\* i below min(len(context), len(answers)), by a roles[0] message with
\* context[i] and a roles[1] message with answers[i]; the entries beyond the
\* shorter list are dropped without an error.
C15_MessagesAlternate ==
    (IsList(input_text.context) /\ IsList(input_text.answers)) =>
        LET ctx == input_text.context.val
            ans == input_text.answers.val
            m == IF Len(ctx) <= Len(ans) THEN Len(ctx) ELSE Len(ans)
            sys == IF config.system \in {None, ""} THEN 0 ELSE 1
        IN  /\ tmpl_pc \in {"render", "returned"} =>
                /\ Len(messages) = sys + 2 * m
                /\ sys = 1 => messages[1] = [role |-> "system", text |-> config.system]
                /\ \A t \in 1..m :
                       /\ messages[sys + 2 * t - 1] = [role |-> Roles[1], text |-> ctx[t]]
                       /\ messages[sys + 2 * t] = [role |-> Roles[2], text |-> ans[t]]
            /\ tmpl_pc = "raised" => messages = <<>>

C15_Witness ==
    /\ tmpl_pc = "returned"
    /\ IsList(input_text.context) /\ IsList(input_text.answers)
    /\ Len(input_text.context.val) = 2 /\ Len(input_text.answers.val) = 1
    /\ config.system = "S"
    /\ Len(messages) = 3

\* ---------------------------------------------------------------- claims about save
\* A line is a unigram line: dashes, a number, a tab, a word without
\* whitespace, and then tabs, dashes and a number, each possibly empty, up to
\* the end of the line or its final newline.
IsUnigramLine(s) ==
    LET tab == FindFrom(s, <<"\t">>, 1)
        last == IF s # <<>> /\ s[Len(s)] = "\n" THEN Len(s) - 1 ELSE Len(s)
    IN  /\ tab > 1
        /\ \E a \in 0..(tab - 2) :
               /\ \A r \in 1..a : s[r] \in Dashes
               /\ \A r \in (a + 1)..(tab - 1) : s[r] \in NumDots
        /\ \E w \in (tab + 1)..last :
               /\ \A r \in (tab + 1)..w : s[r] \notin Whitespace
               /\ \E d \in w..last, e \in w..last :
                      /\ d <= e
                      /\ \A r \in (w + 1)..d : s[r] = "\t"
                      /\ \A r \in (d + 1)..e : s[r] \in Dashes
                      /\ \A r \in (e + 1)..last : s[r] \in NumDots

\* The word of a unigram line: what stands after the first tab up to the next
\* whitespace, in lower case when --lower is given.
ClaimedWord(s) ==
    LET tab == FindFrom(s, <<"\t">>, 1)
        stop == CHOOSE w \in tab..Len(s) :
                    /\ \A r \in (tab + 1)..w : s[r] \notin Whitespace
                    /\ w = Len(s) \/ s[w + 1] \in Whitespace
        raw == SubSeq(s, tab + 1, stop)
    IN  IF args.lower THEN Lower(raw) ELSE raw

\* A line whose word is kept: a unigram line whose word is none of <UNK>,
\* <unk>, <s>, </s>.
RetainedLine(s) ==
    /\ IsUnigramLine(s)
    /\ ClaimedWord(s) \notin {<<"<", "U", "N", "K", ">">>, <<"<", "u", "n", "k", ">">>,
                              <<"<", "s", ">">>, <<"<", "/", "s", ">">>}

\* A retained line whose word the plain tokenizer knows entirely.
KnownLine(s) ==
    /\ RetainedLine(s)
    /\ \A n \in DOMAIN ClaimedWord(s) : TextToIds(ClaimedWord(s))[n] # UnkId

\* The word, a tab, its characters separated by single spaces, a newline.
RECURSIVE Spaced(_)
Spaced(w) == IF Len(w) <= 1 THEN w ELSE <<w[1], " ">> \o Spaced(Tail(w))

WrittenFor(lines) ==
    [n \in 1..Len(lines) |->
        ClaimedWord(lines[n]) \o <<"\t">> \o Spaced(ClaimedWord(lines[n])) \o <<"\n">>]

\* C16: when the ARPA path does not exist, save exits with status 255 and has
\* not opened the lexicon file: from the call on the lexicon file is what it
\* was, neither created nor truncated nor written.
C16_MissingArpaExitsBeforeOpen ==
    /\ [][(save_pc # "idle" /\ ~arpa_exists) => lexicon' = lexicon]_vars
    /\ []((save_pc \notin {"idle", "check"} /\ ~arpa_exists) =>
             (save_pc = "exited" /\ exit_status = 255 /\ save_err = ""))

C16_Witness ==
    /\ save_pc = "exited" /\ exit_status = 255 /\ ~arpa_exists
    /\ lexicon = OldLexicon

\* C17: with no tokenizer save writes one line for each retained ARPA line, in
\* ARPA order and without removing duplicates: the word, a tab, and the word's
\* characters joined by single spaces; headers, blank lines and higher-order
\* n-grams give nothing.
C17_LexiconWithoutTokenizer ==
    (save_pc = "done" /\ args.tokenizer = None) =>
        /\ lexicon.exists
        /\ lexicon.lines = WrittenFor(SelectSeq(arpa, RetainedLine))
        /\ save_err = ""

C17_Witness ==
    /\ save_pc = "done" /\ args.tokenizer = None /\ args.lower
    /\ Len(arpa) = 2 /\ arpa[1] # arpa[2]
    /\ Len(lexicon.lines) = 2 /\ lexicon.lines[1] = lexicon.lines[2]

\* C18 as stated: with an AggregateTokenizer and no langid save raises
\* ValueError whatever the ARPA file holds; with a plain tokenizer a retained
\* word is written exactly when unk_id is not among its ids; with an
\* AggregateTokenizer and a langid every retained word is written.
C18_AggregateAlwaysRaises ==
    /\ (save_pc \in {"done", "raised"} /\ args.tokenizer = "aggregate"
            /\ ~Truthy(args.langid))
        => (save_pc = "raised" /\ save_err = "ValueError")
    /\ (save_pc = "done" /\ args.tokenizer = "plain")
        => lexicon.lines = WrittenFor(SelectSeq(arpa, KnownLine))
    /\ (save_pc = "done" /\ args.tokenizer = "aggregate" /\ Truthy(args.langid))
        => lexicon.lines = WrittenFor(SelectSeq(arpa, RetainedLine))

\* C18 amended: with an AggregateTokenizer and no langid save raises ValueError
\* exactly when the ARPA file holds a retained line, on reaching the first one
\* and with the lexicon file created but empty; without a retained line it
\* ends normally with an empty lexicon. The other two cases are as stated.
C18_AggregateRaisesOnRetainedWord ==
    /\ (save_pc \in {"done", "raised"} /\ args.tokenizer = "aggregate"
            /\ ~Truthy(args.langid))
        => /\ save_pc = "raised" <=> \E n \in DOMAIN arpa : RetainedLine(arpa[n])
           /\ save_pc = "raised" =>
                 /\ save_err = "ValueError"
                 /\ RetainedLine(arpa[line_no + 1])
                 /\ \A n \in 1..line_no : ~RetainedLine(arpa[n])
           /\ lexicon = [exists |-> TRUE, lines |-> <<>>]
    /\ (save_pc \in {"done", "raised"} /\ args.tokenizer = "plain")
        => /\ save_pc = "done"
           /\ lexicon.lines = WrittenFor(SelectSeq(arpa, KnownLine))
    /\ (save_pc \in {"done", "raised"} /\ args.tokenizer = "aggregate"
            /\ Truthy(args.langid))
        => /\ save_pc = "done"
           /\ lexicon.lines = WrittenFor(SelectSeq(arpa, RetainedLine))

C18_Witness ==
    /\ save_pc = "raised" /\ save_err = "ValueError"
    /\ args.tokenizer = "aggregate" /\ args.langid = ""
    /\ line_no = 1 /\ ~RetainedLine(arpa[1]) /\ RetainedLine(arpa[2])
====
